---- MODULE Spec2Model ----
(***************************************************************************)
(* Model of tools/kapture_run_colmap_gv.py: the orchestration of one       *)
(* geometric-verification run (run_colmap_gv and                           *)
(* run_colmap_gv_from_loaded_data) over the on-disk state it touches: the  *)
(* two kapture directories and the file <output_dir>/colmap.db.            *)
(*                                                                         *)
(* A match pair key is an opaque value of Pairs.  A COLMAP database file   *)
(* is a record: whether the file exists, whether its tables were created,  *)
(* the pairs of its matches table and the pairs of its                     *)
(* two_view_geometries table (the verified pairs).                         *)
(***************************************************************************)
EXTENDS Integers, Sequences, FiniteSets, TLC

\* ---------------------------------------------------------------- bounds
MaxPairs == 3
MaxRuns == 2

Pairs == 1..MaxPairs

\* the choices of the command line's --skip option, in the order of the code
Steps == <<"delete_existing", "matches_importer", "import", "delete_db">>
StepNames == {Steps[i] : i \in 1..Len(Steps)}
StepIndex(s) == CHOOSE i \in 1..Len(Steps) : Steps[i] = s

\* ------------------------------------------------------- optional values
None == [some |-> FALSE, val |-> {}]
Some(s) == [some |-> TRUE, val |-> s]

\* Python truth value of a kapture collection: None and empty are falsy
Truthy(c) == c = "full"
TruthyMatches(m) == m.some /\ m.val # {}

\* ------------------------------------------------------------ the db file
NoFile == [exists |-> FALSE, tables |-> FALSE, matches |-> {}, tvg |-> {}]
EmptyFile == [exists |-> TRUE, tables |-> FALSE, matches |-> {}, tvg |-> {}]

VARIABLES
    skip_list,              \* argument: set of step names to skip
    force,                  \* argument: the force flag
    input_dir,              \* on disk: the unverified kapture directory
    output_matches,         \* on disk: matches of the verified kapture directory
    db,                     \* on disk: <output_dir>/colmap.db
    good,                   \* the pairs the external binary accepts
    pc,                     \* position in run_colmap_gv
    kapture_none_matches,   \* loaded unverified snapshot
    kapture_colmap_matches, \* loaded verified snapshot: its matches
    matches_to_verify,      \* local of the matches_importer step
    colmap_db,              \* TRUE while this process holds an open handle
    subprocess,             \* "idle", "running", "exit_zero", "exit_nonzero"
    kapture_data,           \* local of the import step: the imported matches
    error,                  \* the exception that ended the run, or "none"
    performed,              \* history: the steps begun in this run, in order
    finished,               \* history: how many of them have ended
    launches,               \* history: subprocess launches in this run
    db_at_start,            \* history: the db file when the run started
    db_exported,            \* history: the db file when the export closed it
    db_at_import,           \* history: the db file when the import read it
    run,                    \* history: number of the current run
    output_prev             \* history: output_matches at the end of the previous run

vars == <<skip_list, force, input_dir, output_matches, db, good, pc,
          kapture_none_matches, kapture_colmap_matches, matches_to_verify,
          colmap_db, subprocess, kapture_data, error, performed, finished,
          launches, db_at_start, db_exported, db_at_import, run, output_prev>>

args == <<skip_list, force, input_dir, good>>
history == <<db_at_start, db_exported, db_at_import, run, output_prev>>

\* ------------------------------------------------------------ the inputs
\* rigs and trajectories of a loaded snapshot: rigs with rig-relative
\* trajectories, rigs without trajectories, no rigs and plain camera poses
RigCases == {<<TRUE, "rigged">>, <<TRUE, "none">>, <<FALSE, "flat">>}

\* snapshots that pass the check of the mandatory collections
ValidInputs ==
    {[records_camera |-> "full", sensors |-> "full", keypoints |-> "full",
      matches |-> Some(1..k), rigs |-> rt[1], trajectories |-> rt[2]] :
        k \in 1..MaxPairs, rt \in RigCases}

\* snapshots in which one mandatory collection is missing (None) or empty
InvalidInputs ==
    {[records_camera |-> IF d = "records_camera" THEN kind ELSE "full",
      sensors |-> IF d = "sensors" THEN kind ELSE "full",
      keypoints |-> IF d = "keypoints" THEN kind ELSE "full",
      matches |-> IF d = "matches"
                  THEN (IF kind = "none" THEN None ELSE Some({}))
                  ELSE Some(Pairs),
      rigs |-> TRUE, trajectories |-> "rigged"] :
        d \in {"records_camera", "sensors", "keypoints", "matches"},
        kind \in {"none", "empty"}}

\* what the external binary accepts: nothing, the odd pairs, everything
GoodSets == {{}, {p \in Pairs : p % 2 = 1}, Pairs}

\* a database file left at the path by an earlier run of binary g
StaleFiles(g) ==
    {[exists |-> TRUE, tables |-> TRUE, matches |-> s, tvg |-> s \cap g] :
        s \in {{}, {1}, {MaxPairs}}}

OptMatches == {None} \cup {Some(s) : s \in SUBSET Pairs}

Init ==
    /\ skip_list \in SUBSET StepNames
    /\ force \in BOOLEAN
    /\ input_dir \in ValidInputs \cup InvalidInputs
    /\ output_matches \in OptMatches
    /\ good \in GoodSets
    /\ db \in {NoFile} \cup StaleFiles(good)
    /\ pc = "load"
    /\ kapture_none_matches = input_dir
    /\ kapture_colmap_matches = None
    /\ matches_to_verify = {}
    /\ colmap_db = FALSE
    /\ subprocess = "idle"
    /\ kapture_data = None
    /\ error = "none"
    /\ performed = <<>>
    /\ finished = 0
    /\ launches = 0
    /\ db_at_start = db
    /\ db_exported = NoFile
    /\ db_at_import = NoFile
    /\ run = 1
    /\ output_prev = None

\* ------------------------------------------------------------ run_colmap_gv
\* kapture_from_dir of both directories, then the call
Load ==
    /\ pc = "load"
    /\ kapture_none_matches' = input_dir
    /\ kapture_colmap_matches' = output_matches
    /\ pc' = "validate"
    /\ UNCHANGED <<args, output_matches, db, matches_to_verify, colmap_db,
                   subprocess, kapture_data, error, performed, finished,
                   launches, history>>

\* mutant: the check forgets the matches
mandatory_without_matches(k) ==
    /\ Truthy(k.records_camera)
    /\ Truthy(k.sensors)
    /\ Truthy(k.keypoints)

\* the condition of the mandatory collections
mandatory(k) ==
    /\ Truthy(k.records_camera)
    /\ Truthy(k.sensors)
    /\ Truthy(k.keypoints)
    /\ TruthyMatches(k.matches)

Validate ==
    /\ pc = "validate"
    /\ IF mandatory(kapture_none_matches)
       THEN pc' = "rigs" /\ error' = error
       ELSE pc' = "error" /\ error' = "ValueError"
    /\ UNCHANGED <<args, output_matches, db, kapture_none_matches,
                   kapture_colmap_matches, matches_to_verify, colmap_db,
                   subprocess, kapture_data, performed, finished, launches,
                   history>>

\* rigs_remove_inplace rewrites the loaded trajectories, not the directory
RemoveRigs ==
    /\ pc = "rigs"
    /\ kapture_none_matches' =
         IF kapture_none_matches.rigs /\ kapture_none_matches.trajectories # "none"
         THEN [kapture_none_matches EXCEPT !.trajectories = "flat"]
         ELSE kapture_none_matches
    /\ pc' = "delete_existing"
    /\ UNCHANGED <<args, output_matches, db, kapture_colmap_matches,
                   matches_to_verify, colmap_db, subprocess, kapture_data,
                   error, performed, finished, launches, history>>

\* ------------------------------------------------------ step delete_existing
\* mutant: the force flag does not remove the file
safe_remove_file_keeps(file, f) == {[file |-> file, raised |-> FALSE]}

\* kapture.utils.paths.safe_remove_file(path, force): the outcomes of the call.
\* A missing file is left alone.  With force the file is removed without a
\* question.  Without force the user is asked: on a yes the file is removed; on
\* a no the library either returns with the file in place or fails.
safe_remove_file(file, f) ==
    IF ~file.exists
    THEN {[file |-> file, raised |-> FALSE]}
    ELSE IF f
    THEN {[file |-> NoFile, raised |-> FALSE]}
    ELSE {[file |-> NoFile, raised |-> FALSE],
          [file |-> file, raised |-> FALSE],
          [file |-> file, raised |-> TRUE]}

DeleteExisting ==
    /\ pc = "delete_existing"
    /\ "delete_existing" \notin skip_list
    /\ \E o \in safe_remove_file(db, force) :
          /\ db' = o.file
          /\ IF o.raised
             THEN pc' = "error" /\ error' = "safe_remove_file" /\ finished' = finished
             ELSE pc' = "matches_importer" /\ error' = error /\ finished' = finished + 1
    /\ performed' = Append(performed, "delete_existing")
    /\ UNCHANGED <<args, output_matches, kapture_none_matches,
                   kapture_colmap_matches, matches_to_verify, colmap_db,
                   subprocess, kapture_data, launches, history>>

SkipDeleteExisting ==
    /\ pc = "delete_existing"
    /\ "delete_existing" \in skip_list
    /\ pc' = "matches_importer"
    /\ UNCHANGED <<args, output_matches, db, kapture_none_matches,
                   kapture_colmap_matches, matches_to_verify, colmap_db,
                   subprocess, kapture_data, error, performed, finished,
                   launches, history>>

\* ----------------------------------------------------- step matches_importer
\* mutant: the symmetric difference
symmetric_difference(none_matches, colmap_matches) ==
    (none_matches \ colmap_matches) \cup (colmap_matches \ none_matches)

\* kapture.Matches is a set of pair keys; difference is the set difference
difference(none_matches, colmap_matches) == none_matches \ colmap_matches

\* the verified matches used for the difference: an empty Matches() for None
verified_or_empty(m) == IF m.some THEN m.val ELSE {}

ComputeDifference ==
    /\ pc = "matches_importer"
    /\ "matches_importer" \notin skip_list
    /\ matches_to_verify' =
         difference(kapture_none_matches.matches.val,
                    verified_or_empty(kapture_colmap_matches))
    /\ performed' = Append(performed, "matches_importer")
    /\ pc' = "export_connect"
    /\ UNCHANGED <<args, output_matches, db, kapture_none_matches,
                   kapture_colmap_matches, colmap_db, subprocess,
                   kapture_data, error, finished, launches, history>>

SkipMatchesImporter ==
    /\ pc = "matches_importer"
    /\ "matches_importer" \in skip_list
    /\ pc' = "import"
    /\ UNCHANGED <<args, output_matches, db, kapture_none_matches,
                   kapture_colmap_matches, matches_to_verify, colmap_db,
                   subprocess, kapture_data, error, performed, finished,
                   launches, history>>

\* COLMAPDatabase.connect(path) is sqlite3.connect: it opens the file at the
\* path as it is, and creates an empty one when there is none
connect(file) == IF file.exists THEN file ELSE EmptyFile

ExportConnect ==
    /\ pc = "export_connect"
    /\ db' = connect(db)
    /\ colmap_db' = TRUE
    /\ pc' = "export"
    /\ UNCHANGED <<args, output_matches, kapture_none_matches,
                   kapture_colmap_matches, matches_to_verify, subprocess,
                   kapture_data, error, performed, finished, launches,
                   history>>

\* mutant: export_two_view_geometry=True
kapture_to_colmap_with_tvg(file, matches) ==
    [file EXCEPT !.tables = TRUE, !.matches = @ \cup matches, !.tvg = @ \cup matches]

\* database_extra.kapture_to_colmap(..., export_two_view_geometry=False):
\* creates the tables that are missing and inserts the package's rows
kapture_to_colmap(file, matches) ==
    [file EXCEPT !.tables = TRUE, !.matches = @ \cup matches]

ExportToDb ==
    /\ pc = "export"
    /\ db' = kapture_to_colmap(db, matches_to_verify)
    /\ pc' = "export_close"
    /\ UNCHANGED <<args, output_matches, kapture_none_matches,
                   kapture_colmap_matches, matches_to_verify, colmap_db,
                   subprocess, kapture_data, error, performed, finished,
                   launches, history>>

\* the inserts fail when the file already holds rows with the same keys
\* (a database populated by an earlier run); the handle is not closed
ExportIntegrityError ==
    /\ pc = "export"
    /\ db.tables
    /\ pc' = "error"
    /\ error' = "IntegrityError"
    /\ UNCHANGED <<args, output_matches, db, kapture_none_matches,
                   kapture_colmap_matches, matches_to_verify, colmap_db,
                   subprocess, kapture_data, performed, finished, launches,
                   history>>

\* mutant: the handle is not closed
close_forgotten(handle) == handle

\* colmap_db.close()
close(handle) == FALSE

ExportClose ==
    /\ pc = "export_close"
    /\ colmap_db' = close(colmap_db)
    /\ db_exported' = db
    /\ pc' = "run_matches_importer"
    /\ UNCHANGED <<args, output_matches, db, kapture_none_matches,
                   kapture_colmap_matches, matches_to_verify, subprocess,
                   kapture_data, error, performed, finished, launches,
                   db_at_start, db_at_import, run, output_prev>>

\* colmap_lib.run_matches_importer_from_kapture(...): the call starts the binary
MatchesImporterLaunch ==
    /\ pc = "run_matches_importer"
    /\ subprocess' = "running"
    /\ launches' = launches + 1
    /\ pc' = "subprocess_wait"
    /\ UNCHANGED <<args, output_matches, db, kapture_none_matches,
                   kapture_colmap_matches, matches_to_verify, colmap_db,
                   kapture_data, error, performed, finished, history>>

\* the external binary: verifies the pairs of the package's match list and
\* writes the accepted ones into two_view_geometries
verify(file, matches, g) == [file EXCEPT !.tvg = @ \cup (matches \cap g)]

SubprocessExitZero ==
    /\ subprocess = "running"
    /\ db' = verify(db, matches_to_verify, good)
    /\ subprocess' = "exit_zero"
    /\ UNCHANGED <<args, output_matches, pc, kapture_none_matches,
                   kapture_colmap_matches, matches_to_verify, colmap_db,
                   kapture_data, error, performed, finished, launches,
                   history>>

\* a failing binary has written all, or none, of its results
SubprocessExitNonZero ==
    /\ subprocess = "running"
    /\ \E done \in BOOLEAN :
          db' = IF done THEN verify(db, matches_to_verify, good) ELSE db
    /\ subprocess' = "exit_nonzero"
    /\ UNCHANGED <<args, output_matches, pc, kapture_none_matches,
                   kapture_colmap_matches, matches_to_verify, colmap_db,
                   kapture_data, error, performed, finished, launches,
                   history>>

\* the call blocks until the binary has exited
returned(p) == p # "running"

\* a non-zero exit code is raised as an error by the command wrapper
raises(p) == p = "exit_nonzero"

\* mutant: the error of the call is caught and the run goes on
MatchesImporterReturnSwallows ==
    /\ pc = "subprocess_wait"
    /\ returned(subprocess)
    /\ pc' = "import"
    /\ finished' = finished + 1
    /\ UNCHANGED <<args, output_matches, db, kapture_none_matches,
                   kapture_colmap_matches, matches_to_verify, colmap_db,
                   subprocess, kapture_data, error, performed, launches,
                   history>>

\* the call returns, or its error propagates: nothing in the function catches it
MatchesImporterReturn ==
    /\ pc = "subprocess_wait"
    /\ returned(subprocess)
    /\ IF raises(subprocess)
       THEN pc' = "error" /\ error' = "colmap" /\ finished' = finished
       ELSE pc' = "import" /\ error' = error /\ finished' = finished + 1
    /\ UNCHANGED <<args, output_matches, db, kapture_none_matches,
                   kapture_colmap_matches, matches_to_verify, colmap_db,
                   subprocess, kapture_data, performed, launches, history>>

\* --------------------------------------------------------------- step import
ImportConnect ==
    /\ pc = "import"
    /\ "import" \notin skip_list
    /\ db' = connect(db)
    /\ colmap_db' = TRUE
    /\ performed' = Append(performed, "import")
    /\ pc' = "import_read"
    /\ UNCHANGED <<args, output_matches, kapture_none_matches,
                   kapture_colmap_matches, matches_to_verify, subprocess,
                   kapture_data, error, finished, launches, history>>

SkipImport ==
    /\ pc = "import"
    /\ "import" \in skip_list
    /\ pc' = "delete_db"
    /\ UNCHANGED <<args, output_matches, db, kapture_none_matches,
                   kapture_colmap_matches, matches_to_verify, colmap_db,
                   subprocess, kapture_data, error, performed, finished,
                   launches, history>>

\* get_matches_from_database(colmap_db, records_camera, output_dir,
\* no_geometric_filtering=False): the pairs of two_view_geometries
get_matches_from_database(file) == file.tvg

\* mutant: the imported matches replace the matches of the output directory
written_replacing(out, imported) == Some(imported)

\* their match files are written under the output directory, next to the
\* files that are already there
written(out, imported) ==
    IF imported = {} THEN out ELSE Some(verified_or_empty(out) \cup imported)

\* mutant: the import clears what it has read
read_and_clear(file) == [file EXCEPT !.tvg = {}]

\* the import reads the database; it writes nothing to it
read(file) == file

ImportRead ==
    /\ pc = "import_read"
    /\ db.tables
    /\ kapture_data' = Some(get_matches_from_database(db))
    /\ output_matches' = written(output_matches, get_matches_from_database(db))
    /\ db_at_import' = db
    /\ db' = read(db)
    /\ pc' = "import_close"
    /\ UNCHANGED <<args, kapture_none_matches, kapture_colmap_matches,
                   matches_to_verify, colmap_db, subprocess, error,
                   performed, finished, launches, db_at_start, db_exported,
                   run, output_prev>>

\* a file that connect has just created has no images table to select from
ImportNoTable ==
    /\ pc = "import_read"
    /\ ~db.tables
    /\ pc' = "error"
    /\ error' = "OperationalError"
    /\ UNCHANGED <<args, output_matches, db, kapture_none_matches,
                   kapture_colmap_matches, matches_to_verify, colmap_db,
                   subprocess, kapture_data, performed, finished, launches,
                   history>>

ImportClose ==
    /\ pc = "import_close"
    /\ colmap_db' = close(colmap_db)
    /\ finished' = finished + 1
    /\ pc' = "delete_db"
    /\ UNCHANGED <<args, output_matches, db, kapture_none_matches,
                   kapture_colmap_matches, matches_to_verify, subprocess,
                   kapture_data, error, performed, launches, history>>

\* ------------------------------------------------------------ step delete_db
\* os.remove(path)
remove(file) == NoFile

\* mutant: the step does not look at the skip list
DeleteDbUnconditional ==
    /\ pc = "delete_db"
    /\ performed' = Append(performed, "delete_db")
    /\ db.exists
    /\ db' = remove(db)
    /\ finished' = finished + 1
    /\ pc' = "done"
    /\ UNCHANGED <<args, output_matches, kapture_none_matches,
                   kapture_colmap_matches, matches_to_verify, colmap_db,
                   subprocess, kapture_data, error, launches, history>>

DeleteDb ==
    /\ pc = "delete_db"
    /\ "delete_db" \notin skip_list
    /\ performed' = Append(performed, "delete_db")
    /\ IF db.exists
       THEN /\ db' = remove(db)
            /\ finished' = finished + 1
            /\ pc' = "done"
            /\ error' = error
       ELSE /\ db' = db
            /\ finished' = finished
            /\ pc' = "error"
            /\ error' = "FileNotFoundError"
    /\ UNCHANGED <<args, output_matches, kapture_none_matches,
                   kapture_colmap_matches, matches_to_verify, colmap_db,
                   subprocess, kapture_data, launches, history>>

SkipDeleteDb ==
    /\ pc = "delete_db"
    /\ "delete_db" \in skip_list
    /\ pc' = "done"
    /\ UNCHANGED <<args, output_matches, db, kapture_none_matches,
                   kapture_colmap_matches, matches_to_verify, colmap_db,
                   subprocess, kapture_data, error, performed, finished,
                   launches, history>>

\* ------------------------------------------------------------------ next run
\* the command is run again on the same directories with the same arguments
Rerun ==
    /\ pc = "done"
    /\ run < MaxRuns
    /\ run' = run + 1
    /\ output_prev' = output_matches
    /\ db_at_start' = db
    /\ db_exported' = NoFile
    /\ db_at_import' = NoFile
    /\ pc' = "load"
    /\ matches_to_verify' = {}
    /\ subprocess' = "idle"
    /\ kapture_data' = None
    /\ performed' = <<>>
    /\ finished' = 0
    /\ launches' = 0
    /\ UNCHANGED <<args, output_matches, db, kapture_none_matches,
                   kapture_colmap_matches, colmap_db, error>>

Next ==
    \/ Load
    \/ Validate
    \/ RemoveRigs
    \/ DeleteExisting
    \/ SkipDeleteExisting
    \/ ComputeDifference
    \/ SkipMatchesImporter
    \/ ExportConnect
    \/ ExportToDb
    \/ ExportIntegrityError
    \/ ExportClose
    \/ MatchesImporterLaunch
    \/ SubprocessExitZero
    \/ SubprocessExitNonZero
    \/ MatchesImporterReturn
    \/ ImportConnect
    \/ SkipImport
    \/ ImportRead
    \/ ImportNoTable
    \/ ImportClose
    \/ DeleteDb
    \/ SkipDeleteDb
    \/ Rerun

Spec == Init /\ [][Next]_vars

\* ================================================================== claims
PerformedSet == {performed[i] : i \in DOMAIN performed}

\* the steps begun so far are in the order of Steps, none twice
InOrder ==
    \A i, j \in DOMAIN performed :
        i < j => StepIndex(performed[i]) < StepIndex(performed[j])

\* at most the last step begun has not ended: a step begins only after the
\* steps before it have ended; within matches_importer the export is closed
\* before the binary is launched
NoOverlap ==
    /\ finished <= Len(performed)
    /\ Len(performed) <= finished + 1
    /\ launches > 0 => db_exported.exists /\ "matches_importer" \in PerformedSet

RunEnded == pc \in {"done", "error"}

\* C1 as stated: whatever the skip list and force, a step is performed if and
\* only if it is not in the skip list, in the fixed order, none twice, none
\* overlapping another.
C1_PerformedIffNotSkipped ==
    /\ (RunEnded /\ mandatory(input_dir)) =>
           \A s \in StepNames : s \in PerformedSet <=> s \notin skip_list
    /\ InOrder
    /\ NoOverlap

\* C1 amended: a step is performed only if it is not in the skip list; no
\* step that is not skipped is passed over; a run that completes has performed
\* exactly the steps that are not skipped, each to its end; the steps come in
\* the fixed order, none twice, none overlapping another.
C1_StepsInOrder ==
    /\ \A s \in PerformedSet : s \notin skip_list
    /\ \A s \in PerformedSet : \A t \in StepNames :
           (StepIndex(t) < StepIndex(s) /\ t \notin skip_list) => t \in PerformedSet
    /\ pc = "done" => /\ PerformedSet = StepNames \ skip_list
                      /\ finished = Len(performed)
    /\ InOrder
    /\ NoOverlap

C1_Witness ==
    /\ pc = "done"
    /\ skip_list = {"import"}
    /\ performed = <<"delete_existing", "matches_importer", "delete_db">>
    /\ finished = 3

\* one of the four mandatory collections of the unverified directory is
\* missing or empty
MissingMandatory ==
    \/ input_dir.records_camera # "full"
    \/ input_dir.sensors # "full"
    \/ input_dir.keypoints # "full"
    \/ ~input_dir.matches.some
    \/ input_dir.matches.val = {}

\* C2: with a mandatory collection missing or empty the run ends in the
\* configuration error and has touched nothing: the database file is as it was,
\* never opened, the loaded snapshot is as loaded (no rig flattening), no step
\* was begun and the binary was never launched.
C2_AbortsBeforeAnyIO ==
    MissingMandatory =>
        /\ pc \in {"load", "validate", "error"}
        /\ pc = "error" => error = "ValueError"
        /\ db = db_at_start
        /\ colmap_db = FALSE
        /\ kapture_none_matches = input_dir
        /\ performed = <<>>
        /\ launches = 0
        /\ subprocess = "idle"

C2_Witness ==
    /\ pc = "error"
    /\ error = "ValueError"
    /\ input_dir.matches = Some({})
    /\ skip_list = {}
    /\ force
    /\ db.exists
    /\ kapture_none_matches.rigs
    /\ kapture_none_matches.trajectories = "rigged"

\* C3: once the matches_importer step has computed it, the difference is the
\* set of the unverified pairs that are not pairs of the verified snapshot, and
\* the whole unverified set when the verified snapshot has no matches.
C3_SetDifference ==
    "matches_importer" \in PerformedSet =>
        /\ matches_to_verify =
             {p \in kapture_none_matches.matches.val :
                 ~(kapture_colmap_matches.some /\ p \in kapture_colmap_matches.val)}
        /\ ~kapture_colmap_matches.some =>
             matches_to_verify = kapture_none_matches.matches.val

C3_Witness ==
    /\ "matches_importer" \in PerformedSet
    /\ kapture_none_matches.matches.val = {1, 2, 3}
    /\ kapture_colmap_matches = Some({2})
    /\ matches_to_verify = {1, 3}

\* a database file was at the path when the run started and the step
\* delete_existing is not skipped
ExistingNotSkipped ==
    /\ db_at_start.exists
    /\ "delete_existing" \notin skip_list
    /\ mandatory(input_dir)

BeforeMatchesImporter == pc \in {"load", "validate", "rigs", "delete_existing"}

FullForcedRun == skip_list = {} /\ force

\* C5: when the full pipeline with force has completed a second time in
\* succession, the verified matches of the output directory are those it held
\* after the first time.
C5_SecondRunIdempotent ==
    (FullForcedRun /\ run >= 2 /\ pc = "done") => output_matches = output_prev

C5_Witness ==
    /\ FullForcedRun
    /\ run = 2
    /\ pc = "done"
    /\ output_prev = Some({1, 2, 3})
    /\ output_matches = Some({1, 2, 3})
    /\ kapture_data = Some({})

ExportOnly == skip_list = {"delete_existing", "import", "delete_db"}

C7_KeptOrDeleted ==
    /\ ("import" \in PerformedSet /\ pc \in {"import_close", "delete_db"}) =>
          db.exists /\ db = db_at_import
    /\ ("import" \in PerformedSet /\ "delete_db" \in skip_list /\ pc = "done") =>
          db.exists /\ db = db_at_import
    /\ ("delete_db" \notin skip_list /\ pc = "done") => ~db.exists

C7_Witness ==
    /\ skip_list = {"delete_db"}
    /\ pc = "done"
    /\ db.exists
    /\ db.tvg # {}
    /\ db = db_at_import

\* C8: while the external binary runs, this process holds no open handle on
\* the database file: the export has closed its handle, and the import has not
\* yet opened one.
C8_NoHandleWhileSubprocessRuns ==
    /\ subprocess = "running" => colmap_db = FALSE /\ pc = "subprocess_wait"
    /\ pc \in {"import_read", "import_close"} => subprocess # "running"

C8_Witness ==
    /\ subprocess = "running"
    /\ db_exported.exists
    /\ db = db_exported
    /\ colmap_db = FALSE

\* C9: the database handed to the binary holds exactly the computed
\* difference and nothing from an earlier run, whatever the skip list.  Stated
\* for the skip lists the claim names: those that contain delete_existing.
C9_FreshDatabase ==
    ("delete_existing" \in skip_list /\ subprocess = "running") =>
        db.matches = matches_to_verify /\ db.tvg = {}

\* C10: the binary is launched at most once in a run; after it has failed, the
\* run is aborted: no import, no delete_db, and the exported file stays on disk.
C10_FailureAborts ==
    /\ launches <= 1
    /\ subprocess = "exit_nonzero" =>
          /\ pc \in {"subprocess_wait", "error"}
          /\ pc = "error" => error = "colmap"
          /\ "import" \notin PerformedSet
          /\ "delete_db" \notin PerformedSet
          /\ db.exists
          /\ db.matches = db_exported.matches

C10_Witness ==
    /\ pc = "error"
    /\ error = "colmap"
    /\ skip_list = {}
    /\ launches = 1
    /\ db.exists
    /\ matches_to_verify # {}

====
